---- MODULE Spec2Model ----
(***************************************************************************)
(* Model of src/bot.py: the on_message handler of the Gemini Discord bot,  *)
(* its per-(user, channel) conversation history, and the pure helpers it   *)
(* calls.  Text is modelled as TLA+ strings; Python's str methods used by  *)
(* the code are defined below as operators over strings.                   *)
(***************************************************************************)
EXTENDS Integers, Sequences, FiniteSets, TLC

\* ------------------------------------------------------------------ text
\* The i-th character of s (Python s[i-1]) as a one-character string.
Ch(s, i) == SubSeq(s, i, i)

Min(a, b) == IF a < b THEN a ELSE b

Upper == <<"A","B","C","D","E","F","G","H","I","J","K","L","M",
           "N","O","P","Q","R","S","T","U","V","W","X","Y","Z">>
Lowers == <<"a","b","c","d","e","f","g","h","i","j","k","l","m",
            "n","o","p","q","r","s","t","u","v","w","x","y","z">>
Digits == {"0","1","2","3","4","5","6","7","8","9"}

LowerMap == [c \in {Upper[i] : i \in 1..26} |-> Lowers[CHOOSE i \in 1..26 : Upper[i] = c]]

\* str.lower() on one character.
LowerCh(c) == IF c \in DOMAIN LowerMap THEN LowerMap[c] ELSE c

\* str.lower()
RECURSIVE Lower(_)
Lower(s) == IF s = "" THEN "" ELSE LowerCh(Ch(s, 1)) \o Lower(SubSeq(s, 2, Len(s)))

\* Characters str.strip(), str.split() and the regex \s treat as whitespace.
IsSpace(c) == c \in {" ", "\n", "\t", "\r"}

\* Regex \w: letters, digits, underscore.
IsWord(c) ==
    \/ \E i \in 1..26 : c = Upper[i] \/ c = Lowers[i]
    \/ c \in Digits
    \/ c = "_"

RECURSIVE LStrip(_)
LStrip(s) ==
    IF s # "" /\ IsSpace(Ch(s, 1)) THEN LStrip(SubSeq(s, 2, Len(s))) ELSE s

RECURSIVE RStrip(_)
RStrip(s) ==
    IF s # "" /\ IsSpace(Ch(s, Len(s))) THEN RStrip(SubSeq(s, 1, Len(s) - 1)) ELSE s

\* str.strip()
Strip(s) == RStrip(LStrip(s))

\* str.startswith / str.endswith / the "in" operator on strings
StartsWith(s, p) == Len(p) <= Len(s) /\ SubSeq(s, 1, Len(p)) = p
EndsWith(s, p) == Len(p) <= Len(s) /\ SubSeq(s, Len(s) - Len(p) + 1, Len(s)) = p
Contains(s, sub) == \E i \in 1..(Len(s) - Len(sub) + 1) : SubSeq(s, i, i + Len(sub) - 1) = sub

\* str.replace(old, new): every non-overlapping occurrence, left to right.
RECURSIVE Replace(_, _, _)
Replace(s, old, new) ==
    IF s = "" THEN ""
    ELSE IF StartsWith(s, old)
         THEN new \o Replace(SubSeq(s, Len(old) + 1, Len(s)), old, new)
         ELSE Ch(s, 1) \o Replace(SubSeq(s, 2, Len(s)), old, new)

\* len(s.split()): the number of maximal runs of non-whitespace characters.
WordCount(s) ==
    Cardinality({i \in 1..Len(s) :
        /\ ~IsSpace(Ch(s, i))
        /\ (i = 1 \/ IsSpace(Ch(s, i - 1)))})

\* n copies of s, by doubling.
RECURSIVE Rep(_, _)
Rep(s, n) ==
    IF n = 0 THEN ""
    ELSE LET half == Rep(s, n \div 2)
         IN  IF n % 2 = 0 THEN half \o half ELSE half \o half \o s

\* ------------------------------------------------------------- constants
MAX_HISTORY_LENGTH == 8
DISCORD_MAX_CHARS == 2000
SUMMARY_INPUT_CAP == 2000

\* ------------------------------------------------------- pure helpers
\* split_message with range(0, len(text) - limit + 1, limit): the last,
\* shorter chunk is lost.
split_message_full_only(text, limit) ==
    [k \in 1..(Len(text) \div limit) |-> SubSeq(text, (k - 1) * limit + 1, k * limit)]

\* split_message: [text[i:i+limit] for i in range(0, len(text), limit)]
split_message(text, limit) ==
    [k \in 1..((Len(text) + limit - 1) \div limit) |->
        SubSeq(text, (k - 1) * limit + 1, Min(k * limit, Len(text)))]

simple_keywords == {"what is", "who is", "when is", "where is", "how many", "define"}

is_simple_question(content) ==
    LET c == Strip(Lower(content))
    IN  \/ WordCount(c) < 10
        \/ \E kw \in simple_keywords : StartsWith(c, kw)

ImageVerbs == {"generate", "create", "draw"}
ImageNouns == {"image", "picture", "art"}

\* re.search(r'^(generate|create|draw)\s+.*\b(image|picture|art)\b', content, re.IGNORECASE)
\* v: the verb at the start; q: the last character of the \s+ run; p: the
\* first character of the noun; '.' does not match a newline.
is_image_generation_request(content) ==
    LET c == Lower(content)
        n == Len(c)
    IN  \E v \in ImageVerbs :
          /\ StartsWith(c, v)
          /\ \E q \in (Len(v) + 1)..n :
               /\ \A i \in (Len(v) + 1)..q : IsSpace(Ch(c, i))
               /\ \E w \in ImageNouns :
                    \E p \in (q + 1)..(n - Len(w) + 1) :
                      /\ SubSeq(c, p, p + Len(w) - 1) = w
                      /\ \A i \in (q + 1)..(p - 1) : Ch(c, i) # "\n"
                      /\ ~IsWord(Ch(c, p - 1))
                      /\ (p + Len(w) - 1 = n \/ ~IsWord(Ch(c, p + Len(w))))

\* extract_text_from_pdf / summarize_text return None on failure; an optional
\* text is <<>> (None) or <<s>>.
None == <<>>
Some(s) == <<s>>
\* Python truthiness of an optional text: None and "" are both false.
Truthy(o) == o # None /\ o[1] # ""

\* history[-n:]
LastN(s, n) == IF Len(s) <= n THEN s ELSE SubSeq(s, Len(s) - n + 1, Len(s))

\* The pages' texts, each non-empty one followed by a newline.
RECURSIVE JoinPages(_)
JoinPages(pages) ==
    IF pages = <<>> THEN ""
    ELSE (IF Head(pages) # "" THEN Head(pages) \o "\n" ELSE "") \o JoinPages(Tail(pages))

\* extract_text_from_pdf: pdf.parse is FALSE when PyPDF2 raises.
extract_text_from_pdf(pdf) ==
    IF ~pdf.parse THEN None
    ELSE LET full_text == Strip(JoinPages(pdf.pages))
         IN  IF full_text = "" THEN None ELSE Some(full_text)

SummaryInstruction == "Summarize the following document briefly, focusing on main points:\n\n"

\* The prompt summarize_text submits.
summary_prompt(text) == SummaryInstruction \o SubSeq(text, 1, Min(Len(text), SUMMARY_INPUT_CAP))

\* summarize_text: resp is the LLM's answer to summary_prompt(text).
summarize_text(text, resp) == IF resp.ok THEN Some(Strip(resp.text)) ELSE None

SystemSimple ==
    "You are a helpful assistant. Provide clear and complete answers. "
    \o "For simple questions, respond in 2-3 sentences under 350 chars. "
    \o "For others, use a natural length, not too short or overly long."
\* The source has an em dash where "--" stands (module text is ASCII).
SystemNormal ==
    "You are a helpful assistant. Provide clear and complete answers with a natural length--"
    \o "not too short, but not overly long. Aim for a balanced, informative response."

Turn(role, content) == [role |-> role, content |-> content]

RoleLabel(role) ==
    CASE role = "system" -> "System: "
      [] role = "user" -> "User: "
      [] role = "assistant" -> "Assistant: "
      [] OTHER -> ""

RECURSIVE RenderTurns(_)
RenderTurns(msgs) ==
    IF msgs = <<>> THEN ""
    ELSE LET m == Head(msgs)
         IN  (IF m.role \in {"system", "user", "assistant"}
              THEN RoleLabel(m.role) \o m.content \o "\n" ELSE "")
             \o RenderTurns(Tail(msgs))

\* context_messages without the window of line 116.
context_messages_unwindowed(history, user_prompt, is_simple) ==
    <<Turn("system", IF is_simple THEN SystemSimple ELSE SystemNormal)>>
    \o history
    \o <<Turn("user", user_prompt)>>

context_messages(history, user_prompt, is_simple) ==
    <<Turn("system", IF is_simple THEN SystemSimple ELSE SystemNormal)>>
    \o LastN(history, MAX_HISTORY_LENGTH * 2)
    \o <<Turn("user", user_prompt)>>

build_prompt(history, user_prompt, is_simple) ==
    RenderTurns(context_messages(history, user_prompt, is_simple))

\* ------------------------------------------------------------ messages
BotUserId == "99"
MentionToken == "<@" \o BotUserId \o ">"

\* IsPdf without .lower()
IsPdf_cased(filename) == EndsWith(filename, ".pdf")
IsPdf(filename) == EndsWith(Lower(filename), ".pdf")
IsImage(filename) == \E e \in {".jpg", ".jpeg", ".png"} : EndsWith(Lower(filename), e)

ImageNotice(filename) == "Image uploaded: " \o filename \o " (analysis not supported)"

ExtractErrMsg == "Could not extract text from PDF."
SummaryErrMsg == "Failed to summarize PDF content."
PdfExcMsg(e) == "Error processing PDF: " \o e
RefusalMsg ==
    "Image generation not supported with Gemini 1.5 Flash. "
    \o "Contact administrator to enable a compatible model."
RefusalNote == "Image generation not supported."
QuotaMsg == "Gemini API quota exceeded. Try again later."
GenericErrMsg(e) == "Error with Gemini API: " \o e

\* history_key of the variant with one history shared by everyone.
history_key_shared(author, channel) == "1_7"

\* history_key = f"{message.author.id}_{message.channel.id}"
history_key(author, channel) == author \o "_" \o channel

\* The reply trigger: message.reference and .resolved and .resolved.author == client.user
RepliesToBot(ev) == ev.ref = "bot"

\* on_message without the bot check
IgnoresAuthor_never(ev) == FALSE

\* line 139: messages of bot authors are ignored
IgnoresAuthor(ev) == ev.bot

\* lines 144-153: the working prompt and should_process
InitialPrompt(ev) ==
    IF ev.mentioned
    THEN Strip(Replace(Strip(ev.content), MentionToken, ""))
    ELSE Strip(ev.content)
InitialShouldProcess(ev) == ev.mentioned \/ RepliesToBot(ev)

\* FullPrompt with the PDF context left out.
FullPrompt_plain(pdf_summary, prompt) == prompt

\* lines 197-199
FullPrompt(pdf_summary, prompt) ==
    IF Truthy(pdf_summary)
    THEN "Context from attached PDF document:\n" \o pdf_summary[1]
         \o "\n\nUser question:\n" \o prompt
    ELSE prompt

\* The refusal recorded without its assistant turn.
RefusalPair_user_only(prompt) == <<Turn("user", prompt)>>

\* lines 191-194
RefusalPair(prompt) == <<Turn("user", prompt), Turn("assistant", RefusalNote)>>

\* lines 211-214
ReplyPair(full_prompt, reply) == <<Turn("user", full_prompt), Turn("assistant", reply)>>

\* Truncate with an off-by-one slice.
Truncate_odd(history) ==
    IF Len(history) > MAX_HISTORY_LENGTH * 2
    THEN LastN(history, MAX_HISTORY_LENGTH * 2 - 1)
    ELSE history

\* lines 216-217
Truncate(history) ==
    IF Len(history) > MAX_HISTORY_LENGTH * 2
    THEN LastN(history, MAX_HISTORY_LENGTH * 2)
    ELSE history

\* ErrorLabel without .lower()
ErrorLabel_cased(e) ==
    IF Contains(e, "quota") \/ Contains(e, "rate") THEN "send_quota" ELSE "send_generic"

\* lines 226-229: the label of the send that reports an LLM failure
ErrorLabel(e) ==
    IF Contains(Lower(e), "quota") \/ Contains(Lower(e), "rate")
    THEN "send_quota" ELSE "send_generic"

\* ------------------------------------------------------------ events
\* An event is one incoming message together with what the collaborators
\* answer while it is handled: read (attachment.read()), pdf (PyPDF2 on the
\* bytes), sum (the LLM's answer to the summary prompt), gen (the LLM's
\* answer to the combined prompt).  A failed call carries str(e) in text.
Resp(ok, text) == [ok |-> ok, text |-> text]
Pdf(parse, pages) == [parse |-> parse, pages |-> pages]

NoRead == Resp(TRUE, "")
NoPdf == Pdf(TRUE, <<>>)
NoResp == Resp(TRUE, "")

Event(bot, author, channel, content, mentioned, ref, attachments, read, pdf, sum, gen) ==
    [bot |-> bot, author |-> author, channel |-> channel, content |-> content,
     mentioned |-> mentioned, ref |-> ref, attachments |-> attachments,
     read |-> read, pdf |-> pdf, sum |-> sum, gen |-> gen]

\* A message of a user that mentions the bot, without attachments.
Mention(author, content, gen) ==
    Event(FALSE, author, "7", content, TRUE, "none", <<>>, NoRead, NoPdf, NoResp, gen)

\* A message that carries attachments.
WithFiles(bot, content, mentioned, attachments, read, pdf, sum, gen) ==
    Event(bot, "1", "7", content, mentioned, "none", attachments, read, pdf, sum, gen)

\* A message without attachments that does not mention the bot.
Plain(bot, content, ref, gen) ==
    Event(bot, "1", "7", content, FALSE, ref, <<>>, NoRead, NoPdf, NoResp, gen)

GoodPdf == Pdf(TRUE, <<"Hello", "", "World">>)
BlankPdf == Pdf(TRUE, <<"", " \n">>)
BrokenPdf == Pdf(FALSE, <<>>)
GoodSum == Resp(TRUE, " Greeting. ")
Hi == Resp(TRUE, "  Hi there.\n")

Authors == {"1", "2"}
Channels == {"7", "8"}
Keys == {history_key(a, c) : a \in Authors, c \in Channels}

LLMErrors == {"429 Rate limit exceeded", "Failed to generate", "500 Internal error"}
Replies == {"  Hi there.\n", " \n", Rep("a", DISCORD_MAX_CHARS),
            Rep("a", DISCORD_MAX_CHARS) \o "b", Rep("abc", 1500)}
GenOutcomes == {Resp(TRUE, r) : r \in Replies} \cup {Resp(FALSE, e) : e \in LLMErrors}

RichPool ==
    {Mention("1", MentionToken \o " hello", g) : g \in GenOutcomes}
    \cup {Mention("2", " hello " \o MentionToken, Hi),
          Event(FALSE, "1", "8", MentionToken \o " hello", TRUE, "none", <<>>,
                NoRead, NoPdf, NoResp, Hi),
          Mention("1", MentionToken, Hi),
          Mention("1", "<@!99> hi", Hi),
          Mention("1", MentionToken \o " Generate  ART", Hi),
          Mention("1", MentionToken \o " describe a picture of a b c d e f", Resp(FALSE, "blocked")),
          Plain(FALSE, "hello", "none", Hi),
          Plain(FALSE, "hello", "other", Hi),
          Plain(FALSE, "what is art", "bot", Hi),
          Plain(FALSE, "draw a picture of a cat", "bot", Hi),
          Event(TRUE, "2", "7", MentionToken \o " hello", TRUE, "bot", <<"a.pdf", "b.png">>,
                NoRead, BrokenPdf, NoResp, Hi)}
    \cup {WithFiles(FALSE, MentionToken \o " sum up", TRUE, <<"a.PDF">>, NoRead, GoodPdf, s, Hi) :
            s \in {GoodSum, Resp(TRUE, " "), Resp(FALSE, "quota")}}
    \cup {WithFiles(FALSE, MentionToken \o " sum up", TRUE, <<"a.PDF">>, NoRead, p, GoodSum, Hi) :
            p \in {BlankPdf, BrokenPdf}}
    \cup {WithFiles(FALSE, MentionToken \o " sum up", TRUE, <<"a.PDF">>,
                    Resp(FALSE, "HTTP 404"), GoodPdf, GoodSum, Hi),
          WithFiles(FALSE, MentionToken \o " sum up", TRUE, <<"a.PDF">>,
                    NoRead, GoodPdf, GoodSum, Resp(FALSE, "Quota exhausted")),
          WithFiles(FALSE, MentionToken \o " sum up", TRUE, <<"notes.txt", "a.pdf", "b.png">>,
                    NoRead, GoodPdf, GoodSum, Hi),
          WithFiles(FALSE, MentionToken \o " sum up", TRUE, <<"a.pdf", "b.jpg">>,
                    NoRead, BrokenPdf, GoodSum, Hi),
          WithFiles(FALSE, MentionToken \o " sum up", TRUE, <<"a.pdf", "b.pdf">>,
                    NoRead, GoodPdf, Resp(FALSE, "timeout"), Hi),
          WithFiles(FALSE, MentionToken \o " look", TRUE, <<"b.PNG", "a.pdf">>,
                    NoRead, BrokenPdf, GoodSum, Hi),
          WithFiles(FALSE, MentionToken \o " draw a picture of this", TRUE, <<"a.pdf">>,
                    NoRead, GoodPdf, GoodSum, Hi),
          WithFiles(FALSE, MentionToken, TRUE, <<"a.pdf">>, NoRead, BlankPdf, GoodSum, Hi),
          WithFiles(FALSE, MentionToken, TRUE, <<"pdf", "c.jpeg">>, NoRead, NoPdf, NoResp, Hi),
          WithFiles(FALSE, "see this", FALSE, <<"a.pdf">>, NoRead, BrokenPdf, GoodSum, Hi),
          WithFiles(FALSE, "see this", FALSE, <<"a.pdf">>, NoRead, GoodPdf, GoodSum, Hi),
          WithFiles(FALSE, "see this", FALSE, <<"d.txt", "a.pdf.bak">>, NoRead, NoPdf, NoResp, Hi),
          WithFiles(FALSE, "see this", FALSE, <<"c.jpg">>, NoRead, NoPdf, NoResp, Hi)}

\* The workload of long conversations: one prompt that is answered, one that
\* is refused, one LLM failure and one unreadable PDF.
LongPool ==
    {Mention("1", MentionToken \o " hi", Resp(TRUE, "ok")),
     Mention("1", MentionToken \o " hi", Resp(FALSE, "500 Internal error")),
     Plain(FALSE, "draw art", "bot", Hi),
     WithFiles(FALSE, "see this", FALSE, <<"a.pdf">>, NoRead, BrokenPdf, GoodSum, Hi)}

\* The tasks that may run at once; 0 stands for no task.
Handlers == {1, 2}

\* The number of events delivered in a run of each workload.
MaxEvents == 2
MaxLongEvents == 10

Pool(w) == IF w = "long" THEN LongPool ELSE RichPool
Slots(w) == IF w = "long" THEN {1} ELSE Handlers
Budget(w) == IF w = "long" THEN MaxLongEvents ELSE MaxEvents

\* --------------------------------------------------------------- state
VARIABLES
    workload,   \* which pool of events the environment delivers
    budget,     \* events still to be delivered
    hist,       \* conversation_history: key -> list of turns
    log,        \* per key, every turn ever appended, in order (history variable)
    loc,        \* per handler task: its position and local variables
    running     \* the task that holds the event loop, or 0

vars == <<workload, budget, hist, log, loc, running>>

NoEvent == Event(TRUE, "", "", "", FALSE, "none", <<>>, NoRead, NoPdf, NoResp, NoResp)

\* A task's locals.  sent, calls and muts record what the event has done so
\* far: the messages sent, the collaborator calls made, the number of
\* history mutations.
IdleLoc ==
    [pc |-> "idle", ev |-> NoEvent, key |-> "", prompt |-> "", should_process |-> FALSE,
     pdf_summary |-> None, idx |-> 0, full_prompt |-> "", combined |-> "", read_hist |-> <<>>,
     reply |-> "", chunks |-> <<>>, ci |-> 0, sent |-> <<>>, calls |-> <<>>, muts |-> 0]

SendLabels == {"send_extract_err", "send_sum_err", "send_pdf_exc", "send_refusal",
               "send_quota", "send_generic", "send_chunk"}

\* Suspends with the LLM call awaited (generate_content_async).
Suspends_async(label) ==
    label \in {"idle", "read", "typing", "generate",
               "send_extract_err", "send_sum_err", "send_pdf_exc", "send_refusal",
               "send_quota", "send_generic", "send_chunk"}

\* A task reaching one of these labels awaits and releases the event loop:
\* attachment.read() (161), channel.typing() (184), channel.send (164, 169,
\* 174, 187, 222, 227, 229); an idle task holds nothing.
\* model.generate_content (207) and summarize_text (167) are plain blocking
\* calls, and a task that has reached its end returns without awaiting.
Suspends(label) == label \in {"idle", "read", "typing"} \cup SendLabels

\* AfterSend with the return of line 165 missing.
AfterSend_no_return(label) ==
    IF label = "send_refusal" THEN "record_refusal"
    ELSE IF label = "send_extract_err" THEN "gate" ELSE "done"

\* The next label after a send: 164-165, 169-170, 174-175 return; the
\* refusal is recorded after its send (187-194).
AfterSend(label) == IF label = "send_refusal" THEN "record_refusal" ELSE "done"

InitWith(w) ==
    /\ workload = w
    /\ budget = Budget(w)
    /\ hist = [k \in Keys |-> <<>>]
    /\ log = [k \in Keys |-> <<>>]
    /\ loc = [h \in Handlers |-> IdleLoc]
    /\ running = 0

Init == InitWith("rich")
InitLong == InitWith("long")

CanRun(h) == running = h \/ (running = 0 /\ Suspends(loc[h].pc))

\* The task h moves to the locals l.
Move(h, l) ==
    /\ loc' = [loc EXCEPT ![h] = l]
    /\ running' = IF Suspends(l.pc) THEN 0 ELSE h

\* A message arrives and its task starts: lines 137-153.  Tasks are
\* interchangeable: the event takes the first free one.
Receive(h) ==
    /\ loc[h].pc = "idle"
    /\ running = 0
    /\ h \in Slots(workload)
    /\ \A g \in Handlers : g < h => loc[g].pc # "idle"
    /\ budget > 0
    /\ \E ev \in Pool(workload) :
         Move(h, IF IgnoresAuthor(ev)
                 THEN [IdleLoc EXCEPT !.pc = "done", !.ev = ev]
                 ELSE [IdleLoc EXCEPT !.pc = "scan", !.ev = ev,
                                      !.key = history_key(ev.author, ev.channel),
                                      !.prompt = InitialPrompt(ev),
                                      !.should_process = InitialShouldProcess(ev)])
    /\ budget' = budget - 1
    /\ UNCHANGED <<workload, hist, log>>

\* One iteration of the attachment loop, up to its await: lines 157-158, 176-180.
Scan(h) ==
    LET l == loc[h]
        i == l.idx + 1
        atts == l.ev.attachments
    IN  /\ l.pc = "scan"
        /\ CanRun(h)
        /\ Move(h, IF i > Len(atts) THEN [l EXCEPT !.pc = "gate"]
                   ELSE IF IsPdf(atts[i]) THEN [l EXCEPT !.pc = "read", !.idx = i]
                   ELSE IF IsImage(atts[i])
                        THEN [l EXCEPT !.pc = "gate", !.idx = i,
                                       !.prompt = ImageNotice(atts[i]),
                                       !.should_process = TRUE]
                        ELSE [l EXCEPT !.idx = i])
        /\ UNCHANGED <<workload, budget, hist, log>>

\* attachment.read() completes; extraction and summary: lines 161-175.
ReadPdf(h) ==
    LET l == loc[h]
        ev == l.ev
        pdf_text == extract_text_from_pdf(ev.pdf)
        summary == summarize_text(pdf_text[1], ev.sum)
    IN  /\ l.pc = "read"
        /\ CanRun(h)
        /\ Move(h, IF ~ev.read.ok
                   THEN [l EXCEPT !.pc = "send_pdf_exc", !.calls = @ \o <<"read">>]
                   ELSE IF ~Truthy(pdf_text)
                   THEN [l EXCEPT !.pc = "send_extract_err",
                                  !.calls = @ \o <<"read", "extract">>]
                   ELSE IF ~Truthy(summary)
                   THEN [l EXCEPT !.pc = "send_sum_err",
                                  !.calls = @ \o <<"read", "extract", "summarize">>]
                   ELSE [l EXCEPT !.pc = "gate", !.pdf_summary = summary,
                                  !.calls = @ \o <<"read", "extract", "summarize">>])
        /\ UNCHANGED <<workload, budget, hist, log>>

\* line 183
Gate(h) ==
    LET l == loc[h]
    IN  /\ l.pc = "gate"
        /\ CanRun(h)
        /\ Move(h, [l EXCEPT !.pc = IF l.should_process /\ l.prompt # ""
                                    THEN "typing" ELSE "done"])
        /\ UNCHANGED <<workload, budget, hist, log>>

\* The typing indicator is up; the request is classified and, unless it is
\* refused, the combined prompt is built from the keyed history: lines 184-203.
EnterTyping(h) ==
    LET l == loc[h]
        full_prompt == FullPrompt(l.pdf_summary, l.prompt)
    IN  /\ l.pc = "typing"
        /\ CanRun(h)
        /\ Move(h, IF is_image_generation_request(l.prompt)
                   THEN [l EXCEPT !.pc = "send_refusal", !.calls = @ \o <<"typing">>]
                   ELSE [l EXCEPT !.pc = "generate", !.calls = @ \o <<"typing">>,
                                  !.full_prompt = full_prompt,
                                  !.read_hist = hist[l.key],
                                  !.combined = build_prompt(hist[l.key], full_prompt,
                                                            is_simple_question(l.prompt))])
        /\ UNCHANGED <<workload, budget, hist, log>>

\* model.generate_content and response.text.strip(): lines 207-208, 224-226.
Generate(h) ==
    LET l == loc[h]
        gen == l.ev.gen
    IN  /\ l.pc = "generate"
        /\ CanRun(h)
        /\ Move(h, IF gen.ok
                   THEN [l EXCEPT !.pc = "append", !.reply = Strip(gen.text),
                                  !.calls = @ \o <<"generate">>]
                   ELSE [l EXCEPT !.pc = ErrorLabel(gen.text),
                                  !.calls = @ \o <<"generate">>])
        /\ UNCHANGED <<workload, budget, hist, log>>

\* The history update, its truncation and the split of the reply: lines 211-220.
AppendReply(h) ==
    LET l == loc[h]
        pair == ReplyPair(l.full_prompt, l.reply)
        chunks == split_message(l.reply, DISCORD_MAX_CHARS)
    IN  /\ l.pc = "append"
        /\ CanRun(h)
        /\ hist' = [hist EXCEPT ![l.key] = Truncate(@ \o pair)]
        /\ log' = [log EXCEPT ![l.key] = @ \o pair]
        /\ Move(h, [l EXCEPT !.pc = IF chunks = <<>> THEN "done" ELSE "send_chunk",
                             !.chunks = chunks, !.muts = @ + 1])
        /\ UNCHANGED <<workload, budget>>

\* One chunk is sent: lines 221-222.
SendChunk(h) ==
    LET l == loc[h]
    IN  /\ l.pc = "send_chunk"
        /\ CanRun(h)
        /\ Move(h, [l EXCEPT !.sent = Append(@, l.chunks[l.ci + 1]), !.ci = @ + 1,
                             !.pc = IF l.ci + 1 < Len(l.chunks) THEN "send_chunk" ELSE "done"])
        /\ UNCHANGED <<workload, budget, hist, log>>

\* The text of the fixed message sent at a label.
Notice(l) ==
    CASE l.pc = "send_extract_err" -> ExtractErrMsg
      [] l.pc = "send_sum_err" -> SummaryErrMsg
      [] l.pc = "send_pdf_exc" -> PdfExcMsg(l.ev.read.text)
      [] l.pc = "send_refusal" -> RefusalMsg
      [] l.pc = "send_quota" -> QuotaMsg
      [] l.pc = "send_generic" -> GenericErrMsg(l.ev.gen.text)

\* A fixed message is sent: lines 164, 169, 174, 187, 227, 229.
SendNotice(h) ==
    LET l == loc[h]
    IN  /\ l.pc \in SendLabels \ {"send_chunk"}
        /\ CanRun(h)
        /\ Move(h, [l EXCEPT !.sent = Append(@, Notice(l)), !.pc = AfterSend(l.pc)])
        /\ UNCHANGED <<workload, budget, hist, log>>

\* The refusal is recorded in the keyed history: lines 191-194.
RecordRefusal(h) ==
    LET l == loc[h]
        pair == RefusalPair(l.prompt)
    IN  /\ l.pc = "record_refusal"
        /\ CanRun(h)
        /\ hist' = [hist EXCEPT ![l.key] = @ \o pair]
        /\ log' = [log EXCEPT ![l.key] = @ \o pair]
        /\ Move(h, [l EXCEPT !.pc = "done", !.muts = @ + 1])
        /\ UNCHANGED <<workload, budget>>

\* on_message has returned; the task is gone.
Finish(h) ==
    /\ loc[h].pc = "done"
    /\ CanRun(h)
    /\ Move(h, IdleLoc)
    /\ UNCHANGED <<workload, budget, hist, log>>

Next ==
    \E h \in Handlers :
        \/ Receive(h)
        \/ Scan(h)
        \/ ReadPdf(h)
        \/ Gate(h)
        \/ EnterTyping(h)
        \/ Generate(h)
        \/ AppendReply(h)
        \/ SendChunk(h)
        \/ SendNotice(h)
        \/ RecordRefusal(h)
        \/ Finish(h)

Spec == Init /\ [][Next]_vars
SpecLong == InitLong /\ [][Next]_vars
\* Both workloads.
SpecAll == (Init \/ InitLong) /\ [][Next]_vars

\* --------------------------------------------------------------- claims
Busy(h) == loc[h].pc # "idle"
Count(seq, v) == Cardinality({i \in 1..Len(seq) : seq[i] = v})
Called(l, c) == \E i \in 1..Len(l.calls) : l.calls[i] = c
MaxTurns == 2 * MAX_HISTORY_LENGTH

\* C1: in every reachable state the history stored for every key has at
\* most 2 * MAX_PAIRS = 16 turns.
C1_HistoryBounded == \A k \in Keys : Len(hist[k]) <= MaxTurns

\* The events the gate is expected to drop without a reply.
NoImageAttached(ev) == \A i \in 1..Len(ev.attachments) : ~IsImage(ev.attachments[i])
Dropped(ev) ==
    /\ ~ev.bot
    /\ NoImageAttached(ev)
    /\ \/ ~ev.mentioned /\ ev.ref # "bot"
       \/ InitialPrompt(ev) = ""
\* C2: a message of a user that neither mentions the bot nor replies to it
\* and carries no image, or whose prompt is empty, sends nothing and mutates
\* no history, whatever other attachments it carries.
C2_SilentDrop ==
    \A h \in Handlers :
        Busy(h) /\ Dropped(loc[h].ev) => loc[h].sent = <<>> /\ loc[h].muts = 0

\* The notice expected after an LLM failure with error text e.
ExpectedErrorNotice(e) ==
    IF \E w \in {"quota", "rate"} : Contains(Lower(e), w)
    THEN "Gemini API quota exceeded. Try again later."
    ELSE "Error with Gemini API: " \o e
ReplyFailed(l) == Called(l, "generate") /\ ~l.ev.gen.ok
C3_FailedState ==
    \A h \in Handlers :
        LET l == loc[h]
        IN  ReplyFailed(l) =>
              /\ l.pc \in {"send_quota", "send_generic", "done"}
              /\ Count(l.calls, "generate") = 1
              /\ l.muts = 0
              /\ l.sent = IF l.pc = "done" THEN <<ExpectedErrorNotice(l.ev.gen.text)>> ELSE <<>>
C3_FailedStep ==
    \A h \in Handlers :
        /\ loc'[h] # loc[h]
        /\ ~loc[h].ev.gen.ok
        /\ loc[h].pc \in {"generate", "send_quota", "send_generic"}
        => hist' = hist
\* C3: when the LLM call for the reply fails, the event sends exactly one
\* message, the quota notice if the error text contains "quota" or "rate"
\* in any case and the generic notice otherwise, calls the LLM once, and no
\* step of the event changes the history.
C3_LLMFailure == []C3_FailedState /\ [][C3_FailedStep]_vars
C3_Witness ==
    \E h \in Handlers :
        /\ ReplyFailed(loc[h]) /\ loc[h].pc = "done"
        /\ loc[h].ev.gen.text = "Failed to generate"
        /\ loc[h].sent = <<QuotaMsg>>

\* The events whose PDF cannot be read, extracted or summarized.
PdfFails(ev) ==
    \/ ~ev.read.ok
    \/ ~Truthy(extract_text_from_pdf(ev.pdf))
    \/ ~Truthy(summarize_text("", ev.sum))
ExpectedPdfError(ev) ==
    IF ~ev.read.ok THEN "Error processing PDF: " \o ev.read.text
    ELSE IF ~Truthy(extract_text_from_pdf(ev.pdf)) THEN "Could not extract text from PDF."
    ELSE "Failed to summarize PDF content."
PdfFailed(l) == Called(l, "read") /\ PdfFails(l.ev)
\* C4: when the read, the extraction or the summary of the first PDF fails,
\* the event sends exactly one error message and ends: no history mutation,
\* no reply LLM call, no reply chunk, no later attachment examined.
C4_PdfFailureAborts ==
    \A h \in Handlers :
        LET l == loc[h]
        IN  PdfFailed(l) =>
              /\ l.pc \in {"send_pdf_exc", "send_extract_err", "send_sum_err", "done"}
              /\ l.sent = IF l.pc = "done" THEN <<ExpectedPdfError(l.ev)>> ELSE <<>>
              /\ l.muts = 0
              /\ ~Called(l, "typing") /\ ~Called(l, "generate")
              /\ IsPdf(l.ev.attachments[l.idx])
              /\ \A i \in 1..(l.idx - 1) : ~IsPdf(l.ev.attachments[i])
C4_Witness ==
    \E h \in Handlers :
        /\ PdfFailed(loc[h]) /\ loc[h].pc = "done"
        /\ loc[h].ev.mentioned
        /\ loc[h].idx < Len(loc[h].ev.attachments)
        /\ loc[h].sent = <<SummaryErrMsg>>

\* C5: a message of a bot author sends nothing, makes no LLM or PDF call and
\* mutates no history, whatever its content, mentions, reference and
\* attachments.
C5_BotIgnored ==
    \A h \in Handlers :
        LET l == loc[h]
        IN  Busy(h) /\ l.ev.bot =>
              l.pc = "done" /\ l.sent = <<>> /\ l.calls = <<>> /\ l.muts = 0
C5_Witness ==
    \E h \in Handlers :
        /\ loc[h].pc = "done" /\ loc[h].ev.bot
        /\ loc[h].ev.mentioned /\ loc[h].ev.ref = "bot"
        /\ loc[h].ev.attachments # <<>>

\* C6: once more than MAX_PAIRS pairs have been appended for a key, its
\* history has exactly 2 * MAX_PAIRS turns: the most recently appended
\* pairs, in their order.
C6_KeepsLastPairs ==
    \A k \in Keys :
        Len(log[k]) > MaxTurns =>
            Len(hist[k]) = MaxTurns /\ hist[k] = LastN(log[k], MaxTurns)

\* C7: between a task's read of a key's history for the prompt and its
\* append-then-truncate no other task reads or mutates a history: the
\* history it appends to is the history it read, and no other task is
\* between its own read and append or about to record a refusal.
C7_ReadAppendAtomic ==
    \A h \in Handlers :
        loc[h].pc \in {"generate", "append"} =>
            /\ hist[loc[h].key] = loc[h].read_hist
            /\ \A g \in Handlers \ {h} :
                 loc[g].pc \notin {"generate", "append", "record_refusal"}
C7_Witness ==
    \E h, g \in Handlers :
        /\ h # g
        /\ loc[h].pc = "append" /\ loc[h].read_hist # <<>>
        /\ loc[g].key = loc[h].key
        /\ loc[g].pc = "send_chunk"

\* The task has classified its prompt as an image-generation request.
Refused(l) == Called(l, "typing") /\ is_image_generation_request(l.prompt)
ExpectedRefusal ==
    "Image generation not supported with Gemini 1.5 Flash. "
    \o "Contact administrator to enable a compatible model."
ExpectedRefusalPair(prompt) ==
    <<[role |-> "user", content |-> prompt],
      [role |-> "assistant", content |-> "Image generation not supported."]>>
C8_RefusedState ==
    \A h \in Handlers :
        LET l == loc[h]
        IN  Refused(l) =>
              /\ l.pc \in {"send_refusal", "record_refusal", "done"}
              /\ l.sent = IF l.pc = "send_refusal" THEN <<>> ELSE <<ExpectedRefusal>>
              /\ l.muts = IF l.pc = "done" THEN 1 ELSE 0
              /\ ~Called(l, "generate")
C8_RefusedStep ==
    \A h \in Handlers :
        LET l == loc[h]
        IN  /\ loc'[h] # l
            /\ Refused(l)
            => IF l.pc = "record_refusal"
               THEN hist' = [hist EXCEPT ![l.key] = hist[l.key] \o ExpectedRefusalPair(l.prompt)]
               ELSE hist' = hist
\* C8: a processed prompt that matches the image-generation pattern gets the
\* fixed "not supported" message and exactly one synthetic pair (user: the
\* prompt, assistant: the refusal note) appended to the keyed history, and
\* no LLM call is made for a reply.
C8_Refusal == []C8_RefusedState /\ [][C8_RefusedStep]_vars
C8_Witness ==
    \E h \in Handlers :
        /\ Refused(loc[h]) /\ loc[h].pc = "done"
        /\ Called(loc[h], "summarize")
        /\ LastN(hist[loc[h].key], 2) = ExpectedRefusalPair("draw a picture of this")
\* C8 as first stated: no LLM call at all is made during the event.
C8_NoLLMCallAtAll ==
    \A h \in Handlers :
        Refused(loc[h]) => ~Called(loc[h], "generate") /\ ~Called(loc[h], "summarize")

\* The concatenation of a sequence of texts.
RECURSIVE Concat(_)
Concat(seq) == IF seq = <<>> THEN "" ELSE Head(seq) \o Concat(Tail(seq))
Replied(l) == Called(l, "generate") /\ l.pc \in {"send_chunk", "done"}
\* C9: the chunks of a reply have 1 to 2000 characters each, concatenate to
\* the reply, and are sent as separate messages in that order.
C9_ChunksRoundTrip ==
    \A h \in Handlers :
        LET l == loc[h]
        IN  Replied(l) /\ l.ev.gen.ok =>
              /\ \A i \in 1..Len(l.chunks) : Len(l.chunks[i]) \in 1..2000
              /\ Concat(l.chunks) = l.reply
              /\ l.reply = Strip(l.ev.gen.text)
              /\ l.sent = SubSeq(l.chunks, 1, l.ci)
              /\ (l.pc = "done" => Concat(l.sent) = l.reply)
C9_Witness ==
    \E h \in Handlers :
        LET l == loc[h]
        IN  /\ Replied(l) /\ l.pc = "done"
            /\ Len(l.reply) = 4500
            /\ [i \in 1..Len(l.sent) |-> Len(l.sent[i])] = <<2000, 2000, 500>>

\* The file-name test of the attachment loop, stated apart from it.
HasExt(name, exts) == LET n == Lower(name) IN \E e \in exts : EndsWith(n, e)
Supported(name) == HasExt(name, {".pdf", ".jpg", ".jpeg", ".png"})
\* The first supported attachment at or after position i, or 0.
RECURSIVE FirstFrom(_, _)
FirstFrom(atts, i) ==
    IF i > Len(atts) THEN 0
    ELSE IF Supported(atts[i]) THEN i ELSE FirstFrom(atts, i + 1)
FirstSupported(atts) == FirstFrom(atts, 1)
NoticeFor(name) == "Image uploaded: " \o name \o " (analysis not supported)"
\* No image notice of an attachment after position f is the prompt.
NoLaterImage(l, f) ==
    \A j \in (f + 1)..Len(l.ev.attachments) : l.prompt # NoticeFor(l.ev.attachments[j])
Triggered(ev) == ev.mentioned \/ ev.ref = "bot"
\* C10: the attachment loop acts on the first attachment whose name ends, in
\* any case, in .pdf, .jpg, .jpeg or .png, and on no other: an image
\* replaces the prompt, forces processing and leaves every PDF unread; a PDF
\* is read and no later image touches the prompt or should_process.
C10_FirstMatchWins ==
    \A h \in Handlers :
        LET l == loc[h]
            atts == l.ev.attachments
            f == FirstSupported(atts)
        IN  Busy(h) /\ ~l.ev.bot /\ l.pc # "scan" =>
              IF f = 0
              THEN /\ l.idx = Len(atts)
                   /\ NoLaterImage(l, 0)
                   /\ l.should_process = Triggered(l.ev)
                   /\ ~Called(l, "read")
              ELSE IF HasExt(atts[f], {".pdf"})
              THEN /\ l.idx = f
                   /\ l.pc = "read" \/ Called(l, "read")
                   /\ Count(l.calls, "read") <= 1
                   /\ NoLaterImage(l, 0)
                   /\ l.should_process = Triggered(l.ev)
              ELSE /\ l.idx = f
                   /\ l.prompt = NoticeFor(atts[f])
                   /\ l.should_process
                   /\ ~Called(l, "read") /\ ~Called(l, "extract") /\ ~Called(l, "summarize")
C10_Witness ==
    \E h, g \in Handlers :
        /\ loc[h].pc = "done" /\ loc[h].ev.attachments = <<"b.PNG", "a.pdf">>
        /\ loc[h].idx = 1 /\ loc[h].sent # <<>>
        /\ loc[g].pc = "typing" /\ loc[g].ev.attachments = <<"notes.txt", "a.pdf", "b.png">>
        /\ loc[g].idx = 2 /\ Called(loc[g], "summarize")

\* The key an event's history is expected under: its author and channel.
ExpectedKey(ev) == ev.author \o "_" \o ev.channel
\* The event the task h handles in a step (the one it receives, if idle).
StepEvent(h) == IF loc[h].pc = "idle" THEN loc'[h].ev ELSE loc[h].ev
C11_OwnKeyState ==
    \A h \in Handlers :
        Busy(h) /\ ~loc[h].ev.bot => loc[h].key = ExpectedKey(loc[h].ev)
C11_OwnKeyStep ==
    \A h \in Handlers :
        loc'[h] # loc[h] =>
            \A k \in DOMAIN hist : k # ExpectedKey(StepEvent(h)) => hist'[k] = hist[k]
\* C11: every step of an event, successful or failed, leaves the history of
\* every key other than the event's (author id, channel id) unchanged, so
\* each (user, channel) pair has its own history.
C11_OnlyOwnKey == []C11_OwnKeyState /\ [][C11_OwnKeyStep]_vars
C11_Witness ==
    /\ hist["1_7"] # <<>>
    /\ hist["1_8"] # <<>>
    /\ hist["1_7"] # hist["1_8"]
    /\ hist["2_7"] = <<>>

\* The user turn expected for a reply: the prompt, behind the summary of the
\* PDF if one was made.
ExpectedUserTurn(l) ==
    IF Called(l, "summarize")
    THEN "Context from attached PDF document:\n" \o Strip(l.ev.sum.text)
         \o "\n\nUser question:\n" \o l.prompt
    ELSE l.prompt
ExpectedReplyPair(l) ==
    <<[role |-> "user", content |-> ExpectedUserTurn(l)],
      [role |-> "assistant", content |-> Strip(l.ev.gen.text)]>>
Answering(l) == l.ev.gen.ok /\ l.pc \in {"generate", "append", "send_chunk"}
C12_AppendState ==
    \A h \in Handlers :
        LET l == loc[h]
        IN  /\ l.pc \in {"generate", "append"} => l.sent = <<>> /\ l.muts = 0
            /\ l.ev.gen.ok /\ Called(l, "generate") /\ l.pc \in {"send_chunk", "done"}
               => l.muts = 1
C12_AppendStep ==
    \A h \in Handlers :
        LET l == loc[h]
        IN  loc'[h] # l /\ Answering(l) =>
              IF l.pc = "append"
              THEN hist' = [hist EXCEPT ![ExpectedKey(l.ev)] =
                               LastN(@ \o ExpectedReplyPair(l), MaxTurns)]
              ELSE hist' = hist
\* C12: a successful LLM call makes the keyed history gain exactly one pair
\* at its end (user: the PDF-augmented prompt, assistant: the trimmed
\* reply), kept to the last 16 turns, before any chunk is sent, and no
\* other step of the event changes the history.
C12_AppendOncePerReply == []C12_AppendState /\ [][C12_AppendStep]_vars
C12_Witness ==
    \E h \in Handlers :
        LET l == loc[h]
        IN  /\ l.pc = "send_chunk" /\ l.sent = <<>> /\ Called(l, "summarize")
            /\ LastN(hist[l.key], 2) =
                 <<[role |-> "user",
                    content |-> "Context from attached PDF document:\nGreeting."
                                \o "\n\nUser question:\nsum up"],
                   [role |-> "assistant", content |-> "Hi there."]>>

\* C13: every event of a user that reaches processing (should_process and a
\* non-empty prompt) has sent at least one message when its handler ends.
C13_AlwaysAnswers ==
    \A h \in Handlers :
        LET l == loc[h]
        IN  l.pc = "done" /\ ~l.ev.bot /\ Called(l, "typing") => l.sent # <<>>

\* The roles of a history alternate user, assistant, from a user turn.
Alternates(history) ==
    /\ Len(history) % 2 = 0
    /\ \A i \in 1..Len(history) :
         history[i].role = IF i % 2 = 1 THEN "user" ELSE "assistant"
\* C14: every key's history has even length and alternates user, assistant,
\* starting with a user turn; no system turn is stored and truncation keeps
\* each user turn with its assistant turn.
C14_PairsAlternate == \A k \in DOMAIN hist : Alternates(hist[k])
C14_Witness ==
    \E k \in DOMAIN hist :
        /\ Len(log[k]) > MaxTurns /\ Len(hist[k]) = MaxTurns
        /\ hist[k] # LastN(log[k], MaxTurns - 2) \o LastN(log[k], 2)
        /\ hist[k][1].role = "user" /\ hist[k][MaxTurns].role = "assistant"

\* One line of the combined prompt.
ExpectedLine(turn) ==
    (CASE turn.role = "user" -> "User: "
       [] turn.role = "assistant" -> "Assistant: "
       [] turn.role = "system" -> "System: ") \o turn.content \o "\n"
RECURSIVE ExpectedLines(_)
ExpectedLines(turns) ==
    IF turns = <<>> THEN "" ELSE ExpectedLine(Head(turns)) \o ExpectedLines(Tail(turns))
\* The most recent turns of a history, at most 16, in their order.
RecentTurns(history) ==
    [i \in 1..Min(Len(history), 16) |-> history[Len(history) - Min(Len(history), 16) + i]]
C15_PromptState ==
    \A h \in Handlers :
        LET l == loc[h]
        IN  l.pc \in {"generate", "append"} =>
              /\ hist[l.key] = l.read_hist
              /\ \E sys \in {SystemSimple, SystemNormal} :
                   l.combined = "System: " \o sys \o "\n"
                                \o ExpectedLines(RecentTurns(l.read_hist))
                                \o "User: " \o ExpectedUserTurn(l) \o "\n"
C15_PromptStep ==
    \A h \in Handlers :
        loc'[h] # loc[h] /\ loc[h].pc = "typing" => hist' = hist
\* C15: build_prompt emits one system line, then the most recent turns of
\* the history (at most 16) in their order, then the current user turn as
\* the last line, and leaves the history as it was.
C15_PromptLayout == []C15_PromptState /\ [][C15_PromptStep]_vars
C15_Witness ==
    \E h \in Handlers :
        LET l == loc[h]
        IN  /\ l.pc = "generate" /\ Len(l.read_hist) > 16
            /\ StartsWith(l.combined, "System: " \o SystemSimple \o "\nUser: draw art\n")

====
